---- MODULE Spec2Model ----
(***************************************************************************)
(* Model of the scheduling engine of the swarm: the agent life cycle       *)
(* (src/agent.py), the coordinator with its dispatch loop, idle            *)
(* reclamation and auto-scaling (src/swarm.py), and the leveling of a      *)
(* sub-task list into phases (src/orchestrator.py).                        *)
(*                                                                         *)
(* The program runs on one asyncio event loop: a coroutine runs            *)
(* uninterrupted between two points where it really suspends, so one       *)
(* action is the code between two suspension points.                       *)
(***************************************************************************)
EXTENDS Integers, Sequences, FiniteSets, TLC

\* ------------------------------------------------------------------ bounds
\* Tasks created and submitted in one run (auto-scaling needs more than
\* scaling_threshold of them in the queue).
MaxTasks == 7
\* settings.max_agents, a configuration value (100 by default), kept small.
MaxAgents == 2
\* Agents created in one run (agent ids are never reused).
MaxAgentIds == 3
\* The clock advances in steps of TimeStep seconds up to MaxTime.
TimeStep == 400
MaxTime == 400
\* Sub-tasks handed to leveling, and dependencies listed by one sub-task.
MaxPlanTasks == 3
MaxDeps == 2
\* Callers that attempt assign_task concurrently (SpecAccept).
MaxCallers == 3
\* Sub-tasks of a list handed to create_workflow, and the depth of nested
\* add_task calls at which the interpreter raises RecursionError.
MaxWfTasks == 3
MaxDepth == 4
\* Agents in the pool when a sweep of _monitor_agents is followed step by step.
MaxSweepAgents == 3
\* The values of max_subtasks tried run from -1 to MaxLimit, and the default.
MaxLimit == 4

\* ------------------------------------------------------- program constants
scaling_threshold == 5
idle_timeout == 300
\* TaskPriority
LOW == 1
MEDIUM == 2
HIGH == 3
\* parameters.get("max_subtasks", 10)
DefaultMaxSubtasks == 10

None == 0

VARIABLES
    task,            \* task id -> Task object (every Task created so far)
    agent,           \* agent id -> agent object (every agent created so far)
    pool,            \* SwarmCoordinator.agents: the ids in the dict
    task_queue,      \* SwarmCoordinator.task_queue, head first
    active_tasks,    \* keys of SwarmCoordinator.active_tasks
    completed_tasks, \* keys of SwarmCoordinator.completed_tasks
    is_running,      \* SwarmCoordinator.is_running
    disp_pc,         \* where _process_task_queue stands
    held,            \* the task _process_task_queue got from the queue, or None
    inflight,        \* the running _execute_agent_task(agent, task) coroutines
    now,             \* datetime.now(), in seconds
    raised,          \* the agents whose execute_task raised to its caller
    attempt,         \* caller -> its assign_task call and what it returned
    plan_tasks,      \* generate_execution_plan: the argument `tasks` (ids in order)
    plan_deps,       \* generate_execution_plan: id -> dependencies of that task
    remaining,       \* generate_execution_plan: `remaining`
    levels,          \* generate_execution_plan: `levels`
    iters,           \* iterations of the while loop begun so far
    plan_pc,         \* "idle" | "loop" | "done"
    main,            \* process_task: the task's description and max_subtasks
    subtask,         \* sub-task id -> the Task object decompose_task built
    subtasks,        \* process_task: `subtasks` (ids in order)
    workflow,        \* process_task: `workflow`
    prioritized,     \* process_task: `prioritized_tasks`
    orch_pc,         \* where process_task stands
    estimated,       \* process_task: what estimate_duration returned
    wf_stack,        \* create_workflow: the add_task calls in progress
    wf_pos,          \* create_workflow: position of `for task in subtasks`
    agents_to_remove, \* _monitor_agents: `agents_to_remove`, what is left of it
    mon_pc           \* where one sweep of _monitor_agents stands

swarm_vars == <<task, agent, pool, task_queue, active_tasks, completed_tasks,
                is_running, disp_pc, held, inflight, now, raised>>
plan_vars == <<plan_tasks, plan_deps, remaining, levels, iters, plan_pc>>
orch_vars == <<main, subtask, subtasks, workflow, prioritized, orch_pc,
               estimated>>
wf_vars == <<wf_stack, wf_pos>>
mon_vars == <<agents_to_remove, mon_pc>>
vars == <<swarm_vars, attempt, plan_vars, orch_vars, wf_vars, mon_vars>>

\* ------------------------------------------------------------ descriptions
\* A task description is modelled by the class of the words it contains.
Descs == {"research topic", "scrape page", "tidy up"}

\* The descriptions of the composite tasks handed to the orchestrator.
MainDescs == Descs \cup {"build tool", "write report", "analyze code"}

\* The keywords and capability tags that occur in the lower-cased description
\* ("research" contains "search").
Contains(d) ==
    CASE d = "research topic" -> {"research", "search"}
      [] d = "scrape page" -> {"scrape"}
      [] d = "build tool" -> {"build"}
      [] d = "write report" -> {"write"}
      [] d = "analyze code" -> {"analyze", "code"}
      [] OTHER -> {}

\* get_capabilities of the agent classes the factory builds here.
Capabilities(kind) ==
    CASE kind = "researcher" ->
            {"research", "information_synthesis", "data_analysis", "search"}
      [] kind = "web_scraper" ->
            {"web_scraping", "data_extraction", "content_fetching"}
      [] OTHER -> {}

\* _agent_can_handle_task: a capability occurs in the description.
AgentCanHandleTask(kind, d) == \E c \in Capabilities(kind) : c \in Contains(d)

\* create_agent_for_task: the class chosen by the first keyword list that
\* matches; the else branch returns the un-awaited coroutine of
\* create_generic_agent, which is no agent.
CreateAgentForTask(d) ==
    IF Contains(d) \cap {"scrape", "crawl", "extract", "fetch"} # {}
    THEN "web_scraper"
    ELSE IF Contains(d) \cap {"research", "analyze", "investigate"} # {}
    THEN "researcher"
    ELSE IF Contains(d) \cap {"code", "program", "script", "develop"} # {}
    THEN "coder"
    ELSE IF Contains(d) \cap {"coordinate", "organize", "manage"} # {}
    THEN "orchestrator"
    ELSE IF Contains(d) \cap {"data", "statistics", "metrics"} # {}
    THEN "analyzer"
    ELSE IF Contains(d) \cap {"write", "create", "generate"} # {}
    THEN "content_generator"
    ELSE IF Contains(d) \cap {"search", "find", "lookup"} # {}
    THEN "searcher"
    ELSE "coroutine"

\* ------------------------------------------------------------------ objects
\* Task(...) as the dataclass builds it.
NewTask(d, deps) ==
    [description |-> d, dependencies |-> deps, status |-> "pending",
     assigned_to |-> None, result |-> "none", error |-> "none"]

\* BaseAgent.__init__
NewAgent(kind, t) ==
    [kind |-> kind, status |-> "idle", current_task |-> None,
     last_heartbeat |-> t, tasks_completed |-> 0, tasks_failed |-> 0]

\* assign_task without its admission test.
AssignAlways(ag) == TRUE

\* The admission test refusing busy agents only.
AssignUnlessBusy(ag) == ag.status # "busy"

\* BaseAgent.assign_task: the admission test.
AssignOk(ag) == ag.status = "idle"

\* BaseAgent.assign_task on agent a and task t: the agents afterwards.
AgentsAfterAssign(agents, a, t) ==
    IF AssignOk(agents[a])
    THEN [agents EXCEPT ![a].current_task = t, ![a].status = "busy"]
    ELSE agents

\* assign_task leaving task.assigned_to as it was.
TasksAfterAssignUnowned(agents, tasks, a, t) ==
    IF AssignOk(agents[a])
    THEN [tasks EXCEPT ![t].status = "in_progress"]
    ELSE tasks

\* BaseAgent.assign_task on agent a and task t: the tasks afterwards.
TasksAfterAssign(agents, tasks, a, t) ==
    IF AssignOk(agents[a])
    THEN [tasks EXCEPT ![t].assigned_to = a, ![t].status = "in_progress"]
    ELSE tasks

Min(S) == CHOOSE x \in S : \A y \in S : x <= y

\* ------------------------------------------------------------------- Init
SwarmInit ==
    /\ task = <<>>
    /\ agent = <<>>
    /\ pool = {}
    /\ task_queue = <<>>
    /\ active_tasks = {}
    /\ completed_tasks = {}
    /\ is_running = FALSE
    /\ disp_pc = "off"
    /\ held = None
    /\ inflight = {}
    /\ now = 0
    /\ raised = {}
    /\ agents_to_remove = <<>>
    /\ mon_pc = "off"

PlanIdle ==
    /\ plan_tasks = <<>>
    /\ plan_deps = <<>>
    /\ remaining = <<>>
    /\ levels = <<>>
    /\ iters = 0
    /\ plan_pc = "idle"

OrchIdle ==
    /\ main = [description |-> "", max_subtasks |-> 0]
    /\ subtask = <<>>
    /\ subtasks = <<>>
    /\ workflow = <<>>
    /\ prioritized = <<>>
    /\ orch_pc = "idle"
    /\ estimated = <<>>
    /\ wf_stack = <<>>
    /\ wf_pos = 0

Init == SwarmInit /\ attempt = <<>> /\ PlanIdle /\ OrchIdle

\* ---------------------------------------------------------- the coordinator
\* SwarmCoordinator.start (called once).
Start ==
    /\ ~is_running /\ disp_pc = "off"
    /\ is_running' = TRUE
    /\ disp_pc' = "head"
    /\ UNCHANGED <<task, agent, pool, task_queue, active_tasks, completed_tasks,
                   held, inflight, now, attempt, raised, plan_vars, orch_vars, wf_vars, mon_vars>>

\* SwarmCoordinator.stop: every agent of the pool is terminated.
Stop ==
    /\ is_running
    /\ is_running' = FALSE
    /\ agent' = [a \in DOMAIN agent |->
                    IF a \in pool THEN [agent[a] EXCEPT !.status = "terminated"]
                    ELSE agent[a]]
    /\ UNCHANGED <<task, pool, task_queue, active_tasks, completed_tasks,
                   disp_pc, held, inflight, now, attempt, raised, plan_vars, orch_vars, wf_vars, mon_vars>>

\* submit_task putting the task at the head of the queue.
SubmitTaskAtHead(t, d, deps) ==
    /\ t = Len(task) + 1
    /\ task' = Append(task, NewTask(d, deps))
    /\ task_queue' = <<t>> \o task_queue
    /\ active_tasks' = active_tasks \cup {t}
    /\ UNCHANGED <<agent, pool, completed_tasks, is_running, disp_pc, held,
                   inflight, now, attempt, raised, plan_vars, orch_vars, wf_vars, mon_vars>>

\* SwarmCoordinator.submit_task of a new Task t with description d and
\* dependencies deps.
SubmitTask(t, d, deps) ==
    /\ t = Len(task) + 1
    /\ task' = Append(task, NewTask(d, deps))
    /\ task_queue' = Append(task_queue, t)
    /\ active_tasks' = active_tasks \cup {t}
    /\ UNCHANGED <<agent, pool, completed_tasks, is_running, disp_pc, held,
                   inflight, now, attempt, raised, plan_vars, orch_vars, wf_vars, mon_vars>>

\* The workload of one run is a burst of like tasks: every task has the
\* description of the first, and the tasks are either independent or a chain
\* in which each depends on the task submitted before it.
Workload(t, d, deps) ==
    /\ t > 1 => d = task[1].description
    /\ t = 1 => deps = {}
    /\ t > 2 => ((deps = {}) <=> (task[2].dependencies = {}))

\* A caller creates a task and submits it.
Submit ==
    /\ Len(task) < MaxTasks
    /\ \E d \in Descs, deps \in {{}, {Len(task)}} :
          /\ Workload(Len(task) + 1, d, deps)
          /\ SubmitTask(Len(task) + 1, d, deps)

\* while self.is_running, evaluated at the head of a loop.
LoopHead == IF is_running THEN "wait" ELSE "exit"

\* _process_task_queue resumes at the head of its loop (first run, or the end
\* of the sleep after a requeue).
DispatchResume ==
    /\ disp_pc = "head"
    /\ disp_pc' = LoopHead
    /\ UNCHANGED <<task, agent, pool, task_queue, active_tasks, completed_tasks,
                   is_running, held, inflight, now, attempt, raised, plan_vars, orch_vars, wf_vars, mon_vars>>

\* wait_for(task_queue.get(), 1.0) times out on an empty queue: continue.
QueueTimeout ==
    /\ disp_pc = "wait" /\ task_queue = <<>>
    /\ disp_pc' = LoopHead
    /\ UNCHANGED <<task, agent, pool, task_queue, active_tasks, completed_tasks,
                   is_running, held, inflight, now, attempt, raised, plan_vars, orch_vars, wf_vars, mon_vars>>

\* task_queue.get() takes the head of the queue.
QueueGet ==
    /\ disp_pc = "wait" /\ task_queue # <<>>
    /\ held' = Head(task_queue)
    /\ task_queue' = Tail(task_queue)
    /\ disp_pc' = "held"
    /\ UNCHANGED <<task, agent, pool, active_tasks, completed_tasks,
                   is_running, inflight, now, attempt, raised, plan_vars, orch_vars, wf_vars, mon_vars>>

\* _get_suitable_agent, first part: the idle agents of the pool that can
\* handle task t (the first one in the dict's order is returned).
IdleCapable(t) ==
    {a \in pool : /\ agent[a].status = "idle"
                  /\ AgentCanHandleTask(agent[a].kind, task[t].description)}

\* The creation without the test of the pool's size.
MayCreateAlways == TRUE

\* _get_suitable_agent, second part: may an agent be created.
MayCreate == Cardinality(pool) < MaxAgents

\* The else branch without its put.
DropOnMiss(q, t, found) == q

\* The put of the else branch done on both branches.
RequeueAlways(q, t, found) == Append(q, t)

\* The queue after `if agent: ... else: await self.task_queue.put(task)` for the
\* task t just taken from it.
QueueAfterDispatch(q, t, found) == IF found THEN q ELSE Append(q, t)

\* agent.assign_task(task) and create_task(_execute_agent_task(agent, task)),
\* with the agents `agents` (the pool's, and the one just created if any).
AssignAndRun(agents, a, t) ==
    /\ agent' = AgentsAfterAssign(agents, a, t)
    /\ task' = TasksAfterAssign(agents, task, a, t)
    /\ inflight' = inflight \cup {<<a, t>>}
    /\ held' = None
    /\ disp_pc' = LoopHead

\* The dispatch of the held task to an idle capable agent of the pool.
DispatchExisting ==
    /\ disp_pc = "held"
    /\ IdleCapable(held) # {}
    /\ AssignAndRun(agent, Min(IdleCapable(held)), held)
    /\ task_queue' = QueueAfterDispatch(task_queue, held, TRUE)
    /\ UNCHANGED <<pool, active_tasks, completed_tasks, is_running,
                   now, attempt, raised, plan_vars, orch_vars, wf_vars, mon_vars>>

\* The dispatch of the held task to an agent the factory creates for it.
DispatchCreate ==
    /\ disp_pc = "held"
    /\ IdleCapable(held) = {}
    /\ MayCreate
    /\ CreateAgentForTask(task[held].description) # "coroutine"
    /\ Len(agent) < MaxAgentIds
    /\ LET a == Len(agent) + 1
           agents == Append(agent,
                        NewAgent(CreateAgentForTask(task[held].description), now))
       IN /\ pool' = pool \cup {a}
          /\ AssignAndRun(agents, a, held)
    /\ task_queue' = QueueAfterDispatch(task_queue, held, TRUE)
    /\ UNCHANGED <<active_tasks, completed_tasks, is_running,
                   now, attempt, raised, plan_vars, orch_vars, wf_vars, mon_vars>>

\* The factory's else branch returns a coroutine object: `agent.id` raises
\* AttributeError before the pool is touched, and the loop's `except
\* Exception` logs it; the held task is neither dispatched nor requeued.
DispatchFactoryError ==
    /\ disp_pc = "held"
    /\ IdleCapable(held) = {}
    /\ MayCreate
    /\ CreateAgentForTask(task[held].description) = "coroutine"
    /\ held' = None
    /\ disp_pc' = LoopHead
    /\ UNCHANGED <<task, agent, pool, task_queue, active_tasks, completed_tasks,
                   is_running, inflight, now, attempt, raised, plan_vars, orch_vars, wf_vars, mon_vars>>

\* No suitable agent and the pool is full: the task goes back to the tail of
\* the queue and the loop sleeps 0.1 s.
DispatchRequeue ==
    /\ disp_pc = "held"
    /\ IdleCapable(held) = {}
    /\ ~MayCreate
    /\ task_queue' = QueueAfterDispatch(task_queue, held, FALSE)
    /\ held' = None
    /\ disp_pc' = "head"
    /\ UNCHANGED <<task, agent, pool, active_tasks, completed_tasks,
                   is_running, inflight, now, attempt, raised, plan_vars, orch_vars, wf_vars, mon_vars>>

\* One iteration of _process_task_queue after the get.
ProcessTaskQueue ==
    \/ DispatchExisting
    \/ DispatchCreate
    \/ DispatchFactoryError
    \/ DispatchRequeue

\* The except branch storing a result next to the error.
TasksAfterExecuteBoth(agents, tasks, a, ok) ==
    LET cur == agents[a].current_task
    IN IF ok
       THEN [tasks EXCEPT ![cur].result = "value", ![cur].status = "completed"]
       ELSE [tasks EXCEPT ![cur].result = "value", ![cur].error = "message",
                          ![cur].status = "failed"]

\* BaseAgent.execute_task of agent a, ending well (ok) or with an exception
\* of the task body: what it does to the agent's current task.
TasksAfterExecute(agents, tasks, a, ok) ==
    LET cur == agents[a].current_task
    IN IF ok
       THEN [tasks EXCEPT ![cur].result = "value", ![cur].status = "completed"]
       ELSE [tasks EXCEPT ![cur].error = "message", ![cur].status = "failed"]

\* execute_task handing the agent back: idle, without a current task.
AgentsAfterExecuteIdle(agents, a, ok) ==
    IF ok
    THEN [agents EXCEPT ![a].tasks_completed = @ + 1, ![a].status = "idle",
                        ![a].current_task = None]
    ELSE [agents EXCEPT ![a].tasks_failed = @ + 1, ![a].status = "idle",
                        ![a].current_task = None]

\* execute_task counting every ended task as completed.
AgentsAfterExecuteMiscounted(agents, a, ok) ==
    IF ok
    THEN [agents EXCEPT ![a].tasks_completed = @ + 1, ![a].status = "completed"]
    ELSE [agents EXCEPT ![a].status = "error", ![a].tasks_completed = @ + 1]

\* BaseAgent.execute_task of agent a: what it does to the agent.
AgentsAfterExecute(agents, a, ok) ==
    IF ok
    THEN [agents EXCEPT ![a].tasks_completed = @ + 1, ![a].status = "completed"]
    ELSE [agents EXCEPT ![a].status = "error", ![a].tasks_failed = @ + 1]

\* _execute_agent_task(a, t) when agent.execute_task() returns: the result is
\* stored on t and t moves from the active to the completed records.
ExecuteSuccess(a, t) ==
    /\ <<a, t>> \in inflight
    /\ agent[a].current_task # None
    /\ task' = [TasksAfterExecute(agent, task, a, TRUE) EXCEPT ![t].result = "value"]
    /\ agent' = AgentsAfterExecute(agent, a, TRUE)
    /\ completed_tasks' = completed_tasks \cup {t}
    /\ active_tasks' = active_tasks \ {t}
    /\ inflight' = inflight \ {<<a, t>>}
    /\ UNCHANGED <<pool, task_queue, is_running, disp_pc, held, now, attempt,
                   raised, plan_vars, orch_vars, wf_vars, mon_vars>>

\* The except branch without its pop from the active records.
ExecuteFailureKeepsActive(a, t) ==
    /\ <<a, t>> \in inflight
    /\ agent[a].current_task # None
    /\ task' = [TasksAfterExecute(agent, task, a, FALSE) EXCEPT ![t].error = "message"]
    /\ agent' = AgentsAfterExecute(agent, a, FALSE)
    /\ raised' = raised \cup {a}
    /\ completed_tasks' = completed_tasks \cup {t}
    /\ inflight' = inflight \ {<<a, t>>}
    /\ UNCHANGED <<pool, task_queue, active_tasks, is_running, disp_pc, held,
                   now, attempt, plan_vars, orch_vars, wf_vars, mon_vars>>

\* _execute_agent_task(a, t) when agent.execute_task() raises (the ValueError
\* of an agent without current task, raised before anything is changed, or
\* the failure of the task body): the error is stored on t and t moves from
\* the active to the completed records.
ExecuteFailure(a, t) ==
    /\ <<a, t>> \in inflight
    /\ LET failed == IF agent[a].current_task = None THEN task
                     ELSE TasksAfterExecute(agent, task, a, FALSE)
       IN task' = [failed EXCEPT ![t].error = "message"]
    /\ agent' = IF agent[a].current_task = None THEN agent
                ELSE AgentsAfterExecute(agent, a, FALSE)
    /\ raised' = raised \cup {a}
    /\ completed_tasks' = completed_tasks \cup {t}
    /\ active_tasks' = active_tasks \ {t}
    /\ inflight' = inflight \ {<<a, t>>}
    /\ UNCHANGED <<pool, task_queue, is_running, disp_pc, held, now, attempt,
                   plan_vars, orch_vars, wf_vars, mon_vars>>

\* The end of one running _execute_agent_task coroutine.
ExecuteAgentTask ==
    \E p \in inflight : ExecuteSuccess(p[1], p[2]) \/ ExecuteFailure(p[1], p[2])

\* The sweep without its test of the agent's status.
StaleAgents == {a \in pool : now - agent[a].last_heartbeat > idle_timeout}

\* The sweep leaving its collecting loop after the first agent found.
FirstAgentToRemove ==
    LET S == {a \in pool : /\ agent[a].status = "idle"
                           /\ now - agent[a].last_heartbeat > idle_timeout}
    IN IF S = {} THEN {} ELSE {Min(S)}

\* _monitor_agents: the agents of the pool that the sweep collects.
AgentsToRemove ==
    {a \in pool : /\ agent[a].status = "idle"
                  /\ now - agent[a].last_heartbeat > idle_timeout}

\* One sweep of _monitor_agents: every collected agent is terminated and
\* deleted from the pool (terminate of an agent that never ran a task holds
\* no scraper, so it neither suspends nor raises).
MonitorAgents ==
    /\ is_running
    /\ agent' = [a \in DOMAIN agent |->
                    IF a \in AgentsToRemove
                    THEN [agent[a] EXCEPT !.status = "terminated"]
                    ELSE agent[a]]
    /\ pool' = pool \ AgentsToRemove
    /\ UNCHANGED <<task, task_queue, active_tasks, completed_tasks, is_running,
                   disp_pc, held, inflight, now, attempt, raised, plan_vars, orch_vars, wf_vars, mon_vars>>

\* The sweep creating one agent at a time.
NumToCreateOne ==
    IF Len(task_queue) > scaling_threshold /\ Cardinality(pool) < MaxAgents
    THEN 1
    ELSE 0

\* The number to create without the cap max_agents - len(agents).
NumToCreateUncapped ==
    IF Len(task_queue) > scaling_threshold /\ Cardinality(pool) < MaxAgents
    THEN Len(task_queue) - scaling_threshold
    ELSE 0

\* _auto_scale: how many agents one sweep creates.
NumToCreate ==
    IF Len(task_queue) > scaling_threshold /\ Cardinality(pool) < MaxAgents
    THEN IF Len(task_queue) - scaling_threshold <= MaxAgents - Cardinality(pool)
         THEN Len(task_queue) - scaling_threshold
         ELSE MaxAgents - Cardinality(pool)
    ELSE 0

\* One sweep of _auto_scale: the generic agents (researchers) join the pool.
AutoScale ==
    /\ is_running
    /\ Len(agent) + NumToCreate <= MaxAgentIds
    /\ agent' = agent \o [i \in 1..NumToCreate |-> NewAgent("researcher", now)]
    /\ pool' = pool \cup (Len(agent) + 1)..(Len(agent) + NumToCreate)
    /\ UNCHANGED <<task, task_queue, active_tasks, completed_tasks, is_running,
                   disp_pc, held, inflight, now, attempt, raised, plan_vars, orch_vars, wf_vars, mon_vars>>

\* Time passes.
Tick ==
    /\ now + TimeStep <= MaxTime
    /\ now' = now + TimeStep
    /\ UNCHANGED <<task, agent, pool, task_queue, active_tasks, completed_tasks,
                   is_running, disp_pc, held, inflight, attempt, raised, plan_vars, orch_vars, wf_vars, mon_vars>>

\* What the coordinator and its agents do, whoever submits.
SwarmStep ==
    \/ Start
    \/ Stop
    \/ DispatchResume
    \/ QueueTimeout
    \/ QueueGet
    \/ ProcessTaskQueue
    \/ ExecuteAgentTask
    \/ MonitorAgents
    \/ AutoScale
    \/ Tick

Next == Submit \/ SwarmStep

Spec == Init /\ [][Next]_vars

\* What the event loop keeps running once the coordinator is started: the
\* three background loops and the execution coroutines (stop and submit_task
\* are calls from outside, and the clock is not the program's).
Background ==
    \/ DispatchResume
    \/ QueueTimeout
    \/ QueueGet
    \/ ProcessTaskQueue
    \/ ExecuteAgentTask
    \/ MonitorAgents
    \/ AutoScale

FairSpec == Spec /\ WF_vars(Background)

\* The dispatch loop is scheduled whenever it can go on, every task body
\* ends, and the two sweeps keep running.
FairDispatchSpec ==
    /\ Spec
    /\ WF_vars(DispatchResume \/ QueueTimeout \/ QueueGet \/ ProcessTaskQueue)
    /\ WF_vars(ExecuteAgentTask)
    /\ WF_vars(MonitorAgents \/ AutoScale)

\* ------------------------------------------- _monitor_agents, step by step
\* The pool may hold agents of a class registered with the factory
\* (register_agent_type) whose terminate() raises: a cleanup that fails before
\* super().terminate() is reached, the place where ResearchAgent.terminate
\* awaits scraper.__aexit__.
TerminateRaises(kind) == kind = "custom"

\* The elements of a set of ids in ascending order (a dict keeps the order of
\* insertion, and ids are given in the order of creation).
RECURSIVE Ascending(_)
Ascending(S) == IF S = {} THEN <<>> ELSE <<Min(S)>> \o Ascending(S \ {Min(S)})

\* A running coordinator whose pool holds idle agents, some with a heartbeat
\* older than idle_timeout, at the top of the loop of _monitor_agents.
SweepInit ==
    /\ task = <<>>
    /\ \E n \in 1..MaxSweepAgents :
          agent \in [1..n -> {[NewAgent(k, h) EXCEPT !.status = "idle"] :
                                k \in {"researcher", "custom"}, h \in {0, MaxTime}}]
    /\ pool = DOMAIN agent
    /\ task_queue = <<>>
    /\ active_tasks = {}
    /\ completed_tasks = {}
    /\ is_running = TRUE
    /\ disp_pc = "off"
    /\ held = None
    /\ inflight = {}
    /\ now = MaxTime
    /\ raised = {}
    /\ agents_to_remove = <<>>
    /\ mon_pc = "top"
    /\ attempt = <<>>
    /\ PlanIdle
    /\ OrchIdle

\* The first for loop: agents_to_remove is collected.
SweepCollect ==
    /\ mon_pc = "top"
    /\ is_running
    /\ agents_to_remove' = Ascending(AgentsToRemove)
    /\ mon_pc' = "remove"
    /\ UNCHANGED <<task, agent, pool, task_queue, active_tasks, completed_tasks,
                   is_running, disp_pc, held, inflight, now, raised, attempt,
                   plan_vars, orch_vars, wf_vars>>

\* The second for loop, one agent: terminate() returns and the agent is
\* deleted from the pool.
SweepRemove ==
    /\ mon_pc = "remove"
    /\ agents_to_remove # <<>>
    /\ ~TerminateRaises(agent[Head(agents_to_remove)].kind)
    /\ agent' = [agent EXCEPT ![Head(agents_to_remove)].status = "terminated"]
    /\ pool' = pool \ {Head(agents_to_remove)}
    /\ agents_to_remove' = Tail(agents_to_remove)
    /\ UNCHANGED <<task, task_queue, active_tasks, completed_tasks, is_running,
                   disp_pc, held, inflight, now, raised, attempt, mon_pc,
                   plan_vars, orch_vars, wf_vars>>

\* The second for loop, one agent: terminate() raises. The exception leaves
\* the for loop and is logged by the `except Exception` of the while loop's
\* body: what was left of agents_to_remove is not visited, and the sleep is
\* skipped.
SweepRaise ==
    /\ mon_pc = "remove"
    /\ agents_to_remove # <<>>
    /\ TerminateRaises(agent[Head(agents_to_remove)].kind)
    /\ mon_pc' = "caught"
    /\ UNCHANGED <<task, agent, pool, task_queue, active_tasks, completed_tasks,
                   is_running, disp_pc, held, inflight, now, raised, attempt,
                   agents_to_remove, plan_vars, orch_vars, wf_vars>>

\* The second for loop is through: asyncio.sleep(30).
SweepSleep ==
    /\ mon_pc = "remove"
    /\ agents_to_remove = <<>>
    /\ mon_pc' = "sleep"
    /\ UNCHANGED <<task, agent, pool, task_queue, active_tasks, completed_tasks,
                   is_running, disp_pc, held, inflight, now, raised, attempt,
                   agents_to_remove, plan_vars, orch_vars, wf_vars>>

\* Back to `while self.is_running`, after the sleep or right after the log.
SweepAgain ==
    /\ mon_pc \in {"sleep", "caught"}
    /\ mon_pc' = "top"
    /\ agents_to_remove' = <<>>
    /\ UNCHANGED <<task, agent, pool, task_queue, active_tasks, completed_tasks,
                   is_running, disp_pc, held, inflight, now, raised, attempt,
                   plan_vars, orch_vars, wf_vars>>

SweepNext == SweepCollect \/ SweepRemove \/ SweepRaise \/ SweepSleep \/ SweepAgain

SweepSpec == SweepInit /\ [][SweepNext]_vars

\* ------------------------------------------------ assign_task, concurrently
\* Callers outside the coordinator offer tasks to one agent, each with one
\* call of assign_task; the agent runs what it accepted and may be terminated.
NoAttempt == [task |-> None, saw |-> "none", ret |-> FALSE]

AcceptInit ==
    /\ task = [t \in 1..(MaxCallers + 1) |-> NewTask("research topic", {})]
    /\ agent = <<NewAgent("researcher", 0)>>
    /\ pool = {}
    /\ task_queue = <<>>
    /\ active_tasks = {}
    /\ completed_tasks = {}
    /\ is_running = FALSE
    /\ disp_pc = "off"
    /\ held = None
    /\ inflight = {}
    /\ now = 0
    /\ raised = {}
    /\ agents_to_remove = <<>>
    /\ mon_pc = "off"
    /\ attempt = [c \in 1..MaxCallers |-> NoAttempt]
    /\ PlanIdle
    /\ OrchIdle

\* Caller c calls agent.assign_task(t); the call has no suspension point. The
\* caller keeps the status it met and the value returned.
AcceptAttempt(c, t) ==
    /\ attempt[c] = NoAttempt
    /\ attempt' = [attempt EXCEPT ![c] = [task |-> t, saw |-> agent[1].status,
                                          ret |-> AssignOk(agent[1])]]
    /\ agent' = AgentsAfterAssign(agent, 1, t)
    /\ task' = TasksAfterAssign(agent, task, 1, t)
    /\ UNCHANGED <<pool, task_queue, active_tasks, completed_tasks, is_running,
                   disp_pc, held, inflight, now, raised, plan_vars, orch_vars, wf_vars, mon_vars>>

Accept == \E c \in 1..MaxCallers, t \in DOMAIN task : AcceptAttempt(c, t)

\* The agent's execute_task ends, well or with a failure of the task body.
RunAssignedTask ==
    /\ agent[1].current_task # None
    /\ agent[1].tasks_completed + agent[1].tasks_failed = 0
    /\ \E ok \in BOOLEAN :
          /\ task' = TasksAfterExecute(agent, task, 1, ok)
          /\ agent' = AgentsAfterExecute(agent, 1, ok)
          /\ raised' = IF ok THEN raised ELSE raised \cup {1}
    /\ UNCHANGED <<pool, task_queue, active_tasks, completed_tasks, is_running,
                   disp_pc, held, inflight, now, attempt, plan_vars, orch_vars, wf_vars, mon_vars>>

\* BaseAgent.terminate
Terminate ==
    /\ agent[1].status # "terminated"
    /\ agent' = [agent EXCEPT ![1].status = "terminated"]
    /\ UNCHANGED <<task, pool, task_queue, active_tasks, completed_tasks,
                   is_running, disp_pc, held, inflight, now, attempt, raised, plan_vars, orch_vars, wf_vars, mon_vars>>

AcceptNext == Accept \/ RunAssignedTask \/ Terminate

AcceptSpec == AcceptInit /\ [][AcceptNext]_vars

\* ------------------------------------------------- generate_execution_plan
\* The sub-tasks handed to generate_execution_plan have distinct ids 1..n, in
\* the order of the list; a dependency may name a task that is not in the list.
OutsideId == MaxPlanTasks + 1

DepSets(n) ==
    {S \in SUBSET (1..n \cup {OutsideId}) : Cardinality(S) <= MaxDeps}

PlanInit ==
    /\ SwarmInit
    /\ attempt = <<>>
    /\ \E n \in 0..MaxPlanTasks :
          /\ plan_tasks = [i \in 1..n |-> i]
          /\ plan_deps \in [1..n -> DepSets(n)]
    /\ remaining = <<>>
    /\ levels = <<>>
    /\ iters = 0
    /\ plan_pc = "idle"
    /\ OrchIdle

Range(seq) == {seq[i] : i \in DOMAIN seq}

\* The removal forgotten.
RemoveNothing(live, t) == live

\* remaining.remove(task), the ids of a list being distinct.
Remove(live, t) == SelectSeq(live, LAMBDA x : x # t)

\* The test asking in addition that every dependency names a task of the
\* batch.
RECURSIVE ScanStrict(_, _, _, _)
ScanStrict(snapshot, i, live, level) ==
    IF i > Len(snapshot)
    THEN [level |-> level, remaining |-> live]
    ELSE LET t == snapshot[i]
         IN IF /\ \A dep \in plan_deps[t] : dep \notin Range(live)
               /\ plan_deps[t] \subseteq Range(plan_tasks)
            THEN ScanStrict(snapshot, i + 1, Remove(live, t), Append(level, t))
            ELSE ScanStrict(snapshot, i + 1, live, level)

\* The body of `for task in remaining[:]`: the loop runs over the copy
\* `snapshot` from position i on, while the test `dep not in [t.id for t in
\* remaining]` reads the list `live`, from which this loop removes.
RECURSIVE Scan(_, _, _, _)
Scan(snapshot, i, live, level) ==
    IF i > Len(snapshot)
    THEN [level |-> level, remaining |-> live]
    ELSE LET t == snapshot[i]
         IN IF \A dep \in plan_deps[t] : dep \notin Range(live)
            THEN Scan(snapshot, i + 1, Remove(live, t), Append(level, t))
            ELSE Scan(snapshot, i + 1, live, level)

\* One pass of the for loop over `rem`: current_level and what remains.
ExtractLevel(rem) == Scan(rem, 1, rem, <<>>)

\* generate_execution_plan is called: remaining = tasks.copy(), levels = [].
PlanStart ==
    /\ plan_pc = "idle"
    /\ remaining' = plan_tasks
    /\ levels' = <<>>
    /\ iters' = 0
    /\ plan_pc' = "loop"
    /\ UNCHANGED <<swarm_vars, attempt, wf_vars, mon_vars, orch_vars, plan_tasks, plan_deps>>

\* The iteration without the break of its else branch.
LevelStepNoBreak ==
    /\ plan_pc = "loop"
    /\ remaining # <<>>
    /\ iters' = iters + 1
    /\ LET r == ExtractLevel(remaining)
       IN IF r.level # <<>>
          THEN /\ levels' = Append(levels, r.level)
               /\ remaining' = r.remaining
          ELSE /\ levels' = Append(levels, remaining)
               /\ remaining' = remaining
    /\ plan_pc' = "loop"
    /\ UNCHANGED <<swarm_vars, attempt, wf_vars, mon_vars, orch_vars, plan_tasks, plan_deps>>

\* One iteration of `while remaining`: the extracted level is appended, or,
\* when nothing was extracted, `remaining` itself is appended and the loop is
\* left by break.
LevelStep ==
    /\ plan_pc = "loop"
    /\ remaining # <<>>
    /\ iters' = iters + 1
    /\ LET r == ExtractLevel(remaining)
       IN IF r.level # <<>>
          THEN /\ levels' = Append(levels, r.level)
               /\ remaining' = r.remaining
               /\ plan_pc' = "loop"
          ELSE /\ levels' = Append(levels, remaining)
               /\ remaining' = remaining
               /\ plan_pc' = "done"
    /\ UNCHANGED <<swarm_vars, attempt, wf_vars, mon_vars, orch_vars, plan_tasks, plan_deps>>

\* `while remaining` finds the list empty: plan["phases"] is built from levels.
PlanFinish ==
    /\ plan_pc = "loop"
    /\ remaining = <<>>
    /\ plan_pc' = "done"
    /\ UNCHANGED <<swarm_vars, attempt, wf_vars, mon_vars, orch_vars, plan_tasks, plan_deps, remaining,
                   levels, iters>>

\* The dict generate_execution_plan returns (a task stands for its
\* description in "tasks").
Plan ==
    [total_tasks |-> Len(plan_tasks),
     phases |-> [i \in DOMAIN levels |->
                    [phase |-> i, tasks |-> levels[i],
                     can_run_parallel |-> Len(levels[i]) > 1]],
     parallel_tasks |-> <<>>,
     critical_path |-> <<>>]

PlanNext == PlanStart \/ LevelStep \/ PlanFinish

PlanSpec == PlanInit /\ [][PlanNext]_vars

\* generate_execution_plan is straight-line synchronous code: once called it
\* runs on until it returns.
PlanFairSpec == PlanSpec /\ WF_vars(PlanNext)

\* ------------------------------------------------------------ process_task
\* A sub-task as the decomposition templates build it: `stage` is the leading
\* words of its description, dependencies the list of ids; the id of the i-th
\* Task built is i.
SubTask(stage, priority, deps) ==
    [stage |-> stage, priority |-> priority, dependencies |-> deps]

DecomposeResearchTask ==
    <<SubTask("search", HIGH, <<>>),
      SubTask("analyze", MEDIUM, <<1>>),
      SubTask("summarize", MEDIUM, <<2>>)>>

DecomposeDevelopmentTask ==
    <<SubTask("analyze requirements", HIGH, <<>>),
      SubTask("design", HIGH, <<1>>),
      SubTask("implement", HIGH, <<2>>),
      SubTask("test", MEDIUM, <<3>>)>>

DecomposeScrapingTask ==
    <<SubTask("identify", HIGH, <<>>),
      SubTask("scrape", HIGH, <<1>>),
      SubTask("process", MEDIUM, <<2>>)>>

DecomposeContentTask ==
    <<SubTask("research", HIGH, <<>>),
      SubTask("generate", HIGH, <<1>>),
      SubTask("review", MEDIUM, <<2>>)>>

DecomposeGenericTask ==
    <<SubTask("analyze", HIGH, <<>>),
      SubTask("execute", HIGH, <<1>>),
      SubTask("validate", MEDIUM, <<2>>)>>

\* decompose_task: the template chosen by the first keyword list that matches.
Template(d) ==
    IF Contains(d) \cap {"research", "analyze", "investigate"} # {}
    THEN DecomposeResearchTask
    ELSE IF Contains(d) \cap {"build", "create", "develop", "code"} # {}
    THEN DecomposeDevelopmentTask
    ELSE IF Contains(d) \cap {"scrape", "extract", "collect"} # {}
    THEN DecomposeScrapingTask
    ELSE IF Contains(d) \cap {"write", "generate", "content"} # {}
    THEN DecomposeContentTask
    ELSE DecomposeGenericTask

\* The slice ending one element early.
SliceShort(seq, m) ==
    IF m - 1 >= Len(seq) THEN seq
    ELSE IF m >= 1 THEN SubSeq(seq, 1, m - 1)
    ELSE <<>>

\* seq[:m] as Python slices: a negative m counts from the end.
Slice(seq, m) ==
    IF m >= Len(seq) THEN seq
    ELSE IF m >= 0 THEN SubSeq(seq, 1, m)
    ELSE IF Len(seq) + m > 0 THEN SubSeq(seq, 1, Len(seq) + m)
    ELSE <<>>

\* decompose_task: the ids of the sub-tasks returned, subtasks[:max_subtasks].
DecomposeTask(d, m) == Slice([i \in DOMAIN Template(d) |-> i], m)

\* create_workflow: add_task(t), depth first, with the list built so far
\* (processed is the set of its elements); AddDeps is its loop over
\* task.dependencies from position i on.
RECURSIVE AddTask(_, _, _, _)
RECURSIVE AddDeps(_, _, _, _, _)
AddTask(objs, list, wf, t) ==
    IF t \in Range(wf) THEN wf
    ELSE Append(AddDeps(objs, list, wf, objs[t].dependencies, 1), t)

AddDeps(objs, list, wf, deps, i) ==
    IF i > Len(deps) THEN wf
    ELSE AddDeps(objs, list,
                 IF deps[i] \in Range(list)
                 THEN AddTask(objs, list, wf, deps[i]) ELSE wf,
                 deps, i + 1)

\* create_workflow: `for task in subtasks: add_task(task)` from position i on.
RECURSIVE WorkflowFrom(_, _, _, _)
WorkflowFrom(objs, list, i, wf) ==
    IF i > Len(list) THEN wf
    ELSE WorkflowFrom(objs, list, i + 1, AddTask(objs, list, wf, list[i]))

CreateWorkflow(objs, list) == WorkflowFrom(objs, list, 1, <<>>)

\* assign_priorities, first loop: the priority of the task at position i of
\* the workflow (the code counts positions from 0).
PriorityAt(objs, wf, i) ==
    LET p == objs[wf[i]].priority
        n == Len(wf)
    IN IF p # MEDIUM THEN p
       ELSE IF i - 1 < n \div 3 THEN HIGH
       ELSE IF i - 1 > (2 * n) \div 3 THEN LOW
       ELSE MEDIUM

\* assign_priorities, first loop: the Task objects afterwards.
ObjsAfterPriorities(objs, wf) ==
    [t \in DOMAIN objs |->
        IF t \in Range(wf)
        THEN [objs[t] EXCEPT !.priority =
                 PriorityAt(objs, wf, CHOOSE i \in DOMAIN wf : wf[i] = t)]
        ELSE objs[t]]

\* The key with the lower priority first.
KeyLessLowFirst(objs, a, b) ==
    \/ objs[a].priority < objs[b].priority
    \/ /\ objs[a].priority = objs[b].priority
       /\ Len(objs[a].dependencies) < Len(objs[b].dependencies)

\* The sort key (-priority.value, len(dependencies)): does a come before b.
KeyLess(objs, a, b) ==
    \/ objs[a].priority > objs[b].priority
    \/ /\ objs[a].priority = objs[b].priority
       /\ Len(objs[a].dependencies) < Len(objs[b].dependencies)

\* sorted() is stable: the list from position i on is inserted, each element
\* behind the elements that do not come after it.
RECURSIVE SortedFrom(_, _, _, _)
SortedFrom(objs, wf, i, out) ==
    IF i > Len(wf) THEN out
    ELSE LET t == wf[i]
             k == Cardinality({j \in DOMAIN out : ~KeyLess(objs, t, out[j])})
         IN SortedFrom(objs, wf, i + 1,
                       SubSeq(out, 1, k) \o <<t>> \o SubSeq(out, k + 1, Len(out)))

\* assign_priorities: the list returned.
AssignPriorities(objs, wf) == SortedFrom(ObjsAfterPriorities(objs, wf), wf, 1, <<>>)

\* estimate_duration: duration_map in the order of the dict.
duration_map ==
    <<[keyword |-> "search", seconds |-> 30],
      [keyword |-> "scrape", seconds |-> 60],
      [keyword |-> "analyze", seconds |-> 120],
      [keyword |-> "code", seconds |-> 180],
      [keyword |-> "test", seconds |-> 90],
      [keyword |-> "write", seconds |-> 150],
      [keyword |-> "review", seconds |-> 60]>>

\* The words around the keywords of duration_map in the leading words the
\* templates write before the main description, as written.
LeadingWords(d) ==
    IF Template(d) = DecomposeResearchTask
    THEN <<{"Search"}, {"Analyze", "research"}, {"research"}>>
    ELSE IF Template(d) = DecomposeDevelopmentTask
    THEN <<{"Analyze"}, {}, {}, {"Test"}>>
    ELSE IF Template(d) = DecomposeScrapingTask
    THEN <<{"scraping"}, {"Scrape"}, {"scraped"}>>
    ELSE IF Template(d) = DecomposeContentTask
    THEN <<{"Research"}, {}, {"Review"}>>
    ELSE <<{"Analyze"}, {}, {}>>

\* str.lower() on those words.
Lower(w) ==
    CASE w = "Search" -> "search"
      [] w = "Analyze" -> "analyze"
      [] w = "Test" -> "test"
      [] w = "Scrape" -> "scrape"
      [] w = "Research" -> "research"
      [] w = "Review" -> "review"
      [] OTHER -> w

\* `keyword in w` for a keyword of duration_map and one of those words.
OccursIn(k, w) ==
    \/ k = w
    \/ k = "search" /\ w = "research"
    \/ k = "scrape" /\ w = "scraped"

\* `keyword in desc` for the description of sub-task t of main task d:
\* desc = task.description.lower(), the leading words followed by the main
\* description.
KeywordInDesc(k, d, t) ==
    \/ \E w \in LeadingWords(d)[t] : OccursIn(k, Lower(w))
    \/ k \in Contains(d)

\* The inner loop without its break: the last match counts.
EstimatedNoBreak(d, t) ==
    LET hits == {i \in DOMAIN duration_map :
                    KeywordInDesc(duration_map[i].keyword, d, t)}
    IN IF hits = {} THEN 60
       ELSE duration_map[CHOOSE i \in hits : \A j \in hits : j <= i].seconds

\* estimate_duration, the inner loop over duration_map.items(): the default
\* of 60 seconds, or the duration of the first keyword found.
Estimated(d, t) ==
    LET hits == {i \in DOMAIN duration_map :
                    KeywordInDesc(duration_map[i].keyword, d, t)}
    IN IF hits = {} THEN 60 ELSE duration_map[Min(hits)].seconds

\* estimate_duration, the outer loop from position i of `tasks` on.
RECURSIVE TotalSeconds(_, _, _)
TotalSeconds(d, list, i) ==
    IF i > Len(list) THEN 0
    ELSE Estimated(d, list[i]) + TotalSeconds(d, list, i + 1)

\* The dict estimate_duration returns; estimated_minutes and estimated_hours
\* are estimated_seconds divided and rounded, and are left out.
EstimateDuration(list) ==
    [estimated_seconds |-> TotalSeconds(main.description, list, 1)]

SubtaskLimits == ((0 - 1)..MaxLimit) \cup {DefaultMaxSubtasks}

\* process_task is called on a composite task.
OrchInit ==
    /\ SwarmInit
    /\ attempt = <<>>
    /\ PlanIdle
    /\ main \in [description : MainDescs, max_subtasks : SubtaskLimits]
    /\ subtask = <<>>
    /\ subtasks = <<>>
    /\ workflow = <<>>
    /\ prioritized = <<>>
    /\ orch_pc = "start"
    /\ estimated = <<>>
    /\ wf_stack = <<>>
    /\ wf_pos = 0

\* Step 1: subtasks = decompose_task(task, max_subtasks).
OrchDecompose ==
    /\ orch_pc = "start"
    /\ subtask' = Template(main.description)
    /\ subtasks' = DecomposeTask(main.description, main.max_subtasks)
    /\ orch_pc' = "decomposed"
    /\ UNCHANGED <<swarm_vars, attempt, wf_vars, mon_vars, plan_vars, main, estimated,
                   workflow, prioritized>>

\* `if not subtasks: return await self.execute_simple_task(task)`
OrchSimple ==
    /\ orch_pc = "decomposed"
    /\ subtasks = <<>>
    /\ orch_pc' = "done"
    /\ UNCHANGED <<swarm_vars, attempt, wf_vars, mon_vars, plan_vars, main, estimated,
                   subtask, subtasks,
                   workflow, prioritized>>

\* Step 2: workflow = create_workflow(subtasks).
OrchCreateWorkflow ==
    /\ orch_pc = "decomposed"
    /\ subtasks # <<>>
    /\ workflow' = CreateWorkflow(subtask, subtasks)
    /\ orch_pc' = "workflow"
    /\ UNCHANGED <<swarm_vars, attempt, wf_vars, mon_vars, plan_vars, main, estimated,
                   subtask, subtasks,
                   prioritized>>

\* Step 3: prioritized_tasks = assign_priorities(workflow).
OrchAssignPriorities ==
    /\ orch_pc = "workflow"
    /\ subtask' = ObjsAfterPriorities(subtask, workflow)
    /\ prioritized' = AssignPriorities(subtask, workflow)
    /\ orch_pc' = "prioritized"
    /\ UNCHANGED <<swarm_vars, attempt, wf_vars, mon_vars, plan_vars, main, estimated,
                   subtasks, workflow>>

\* generate_execution_plan(prioritized_tasks) is called for the dict returned.
OrchPlan ==
    /\ orch_pc = "prioritized"
    /\ plan_tasks' = prioritized
    /\ plan_deps' = [t \in DOMAIN subtask |-> Range(subtask[t].dependencies)]
    /\ remaining' = prioritized
    /\ levels' = <<>>
    /\ iters' = 0
    /\ plan_pc' = "loop"
    /\ orch_pc' = "plan"
    /\ UNCHANGED <<swarm_vars, attempt, wf_vars, mon_vars, main, estimated,
                   subtask, subtasks, workflow,
                   prioritized>>

\* process_task returns the dict with the plan and the estimate.
OrchReturn ==
    /\ orch_pc = "plan"
    /\ plan_pc = "done"
    /\ estimated' = EstimateDuration(prioritized)
    /\ orch_pc' = "done"
    /\ UNCHANGED <<swarm_vars, attempt, wf_vars, mon_vars, plan_vars, main,
                   subtask, subtasks, workflow, prioritized>>

OrchNext ==
    \/ OrchDecompose
    \/ OrchSimple
    \/ OrchCreateWorkflow
    \/ OrchAssignPriorities
    \/ OrchPlan
    \/ LevelStep
    \/ PlanFinish
    \/ OrchReturn

OrchSpec == OrchInit /\ [][OrchNext]_vars

\* ------------------------------------------- create_workflow, step by step
\* An id that names no task of the list.
WfOutsideId == MaxWfTasks + 1

\* The dependency lists tried for a task of a list of n: none, one id of the
\* list (its own included), an id outside the list, or the first two ids.
WfDeps(n) == {<<>>, <<WfOutsideId>>, <<1, 2>>} \cup {<<d>> : d \in 1..n}

\* create_workflow is entered with a list of Task objects of any priorities
\* and dependencies, as step 2 of process_task or on its own: workflow = [],
\* processed = set(), and the for loop is at its first task.
WorkflowInit ==
    /\ SwarmInit
    /\ attempt = <<>>
    /\ PlanIdle
    /\ main = [description |-> "", max_subtasks |-> 0]
    /\ \E n \in 1..MaxWfTasks :
          /\ subtask \in [1..n -> {SubTask("task", p, d) :
                                      p \in {LOW, MEDIUM, HIGH}, d \in WfDeps(n)}]
          /\ subtasks = [i \in 1..n |-> i]
    /\ workflow = <<>>
    /\ prioritized = <<>>
    /\ orch_pc = "adding"
    /\ estimated = <<>>
    /\ wf_stack = <<>>
    /\ wf_pos = 1

\* The frame of the innermost add_task call, and the dependency its for loop
\* is at.
Top == wf_stack[Len(wf_stack)]
TopDep == subtask[Top.task].dependencies[Top.i]

\* `for task in subtasks: add_task(task)`: the call returns at once for a
\* task in processed (processed is the set of the ids in workflow).
WfCall ==
    /\ orch_pc = "adding"
    /\ wf_stack = <<>>
    /\ wf_pos <= Len(subtasks)
    /\ wf_stack' = IF subtasks[wf_pos] \in Range(workflow) THEN <<>>
                   ELSE <<[task |-> subtasks[wf_pos], i |-> 1]>>
    /\ wf_pos' = wf_pos + 1
    /\ UNCHANGED <<swarm_vars, attempt, mon_vars, plan_vars, main, estimated,
                   subtask,
                   subtasks, workflow, prioritized, orch_pc>>

\* `for dep_id in task.dependencies`: dep_task is None, or add_task(dep_task)
\* returns at once because dep_id is in processed.
WfSkip ==
    /\ orch_pc = "adding"
    /\ wf_stack # <<>>
    /\ Top.i <= Len(subtask[Top.task].dependencies)
    /\ TopDep \notin Range(subtasks) \/ TopDep \in Range(workflow)
    /\ wf_stack' = [wf_stack EXCEPT ![Len(wf_stack)].i = @ + 1]
    /\ UNCHANGED <<swarm_vars, attempt, mon_vars, plan_vars, main, estimated,
                   subtask,
                   subtasks, workflow, prioritized, orch_pc, wf_pos>>

\* The dependency's add_task returning at once, whatever processed holds.
WfRecurseNever ==
    /\ orch_pc = "adding"
    /\ wf_stack # <<>>
    /\ Top.i <= Len(subtask[Top.task].dependencies)
    /\ TopDep \in Range(subtasks)
    /\ TopDep \notin Range(workflow)
    /\ Len(wf_stack) < MaxDepth
    /\ wf_stack' = [wf_stack EXCEPT ![Len(wf_stack)].i = @ + 1]
    /\ UNCHANGED <<swarm_vars, attempt, mon_vars, plan_vars, main, estimated,
                   subtask,
                   subtasks, workflow, prioritized, orch_pc, wf_pos>>

\* `add_task(dep_task)` for a dependency of the list that is not in
\* processed: a nested call.
WfRecurse ==
    /\ orch_pc = "adding"
    /\ wf_stack # <<>>
    /\ Top.i <= Len(subtask[Top.task].dependencies)
    /\ TopDep \in Range(subtasks)
    /\ TopDep \notin Range(workflow)
    /\ Len(wf_stack) < MaxDepth
    /\ wf_stack' = Append([wf_stack EXCEPT ![Len(wf_stack)].i = @ + 1],
                          [task |-> TopDep, i |-> 1])
    /\ UNCHANGED <<swarm_vars, attempt, mon_vars, plan_vars, main, estimated,
                   subtask,
                   subtasks, workflow, prioritized, orch_pc, wf_pos>>

\* The nested call that exceeds the interpreter's recursion limit:
\* RecursionError unwinds every add_task and create_workflow; process_task
\* logs it and raises it again.
WfRecursionError ==
    /\ orch_pc = "adding"
    /\ wf_stack # <<>>
    /\ Top.i <= Len(subtask[Top.task].dependencies)
    /\ TopDep \in Range(subtasks)
    /\ TopDep \notin Range(workflow)
    /\ Len(wf_stack) >= MaxDepth
    /\ wf_stack' = <<>>
    /\ orch_pc' = "raised"
    /\ UNCHANGED <<swarm_vars, attempt, mon_vars, plan_vars, main, estimated,
                   subtask,
                   subtasks, workflow, prioritized, wf_pos>>

\* The dependencies are through: workflow.append(task);
\* processed.add(task.id), and the call returns.
WfAppend ==
    /\ orch_pc = "adding"
    /\ wf_stack # <<>>
    /\ Top.i > Len(subtask[Top.task].dependencies)
    /\ workflow' = Append(workflow, Top.task)
    /\ wf_stack' = SubSeq(wf_stack, 1, Len(wf_stack) - 1)
    /\ UNCHANGED <<swarm_vars, attempt, mon_vars, plan_vars, main, estimated,
                   subtask,
                   subtasks, prioritized, orch_pc, wf_pos>>

\* `return workflow`
WfReturn ==
    /\ orch_pc = "adding"
    /\ wf_stack = <<>>
    /\ wf_pos > Len(subtasks)
    /\ orch_pc' = "workflow"
    /\ UNCHANGED <<swarm_vars, attempt, mon_vars, plan_vars, main, estimated,
                   subtask,
                   subtasks, workflow, prioritized, wf_vars>>

WorkflowNext ==
    \/ WfCall
    \/ WfSkip
    \/ WfRecurse
    \/ WfRecursionError
    \/ WfAppend
    \/ WfReturn
    \/ OrchAssignPriorities

WorkflowSpec == WorkflowInit /\ [][WorkflowNext]_vars

\* ================================================================ claims
TerminalStatus == {"completed", "failed"}

\* C1: once the status of a task is completed or failed, no step of the agents
\* or of the coordinator changes it.
C1_StatusMonotonic ==
    [][\A t \in DOMAIN task :
          task[t].status \in TerminalStatus => task'[t].status = task[t].status]_vars

\* C1 witness: one task has ended completed and another failed, both recorded
\* by the coordinator, while the dispatch loop has gone on to requeue a third.
C1_Witness ==
    \E t, u \in DOMAIN task :
        /\ task[t].status = "completed" /\ t \in completed_tasks
        /\ task[u].status = "failed" /\ u \in completed_tasks
        /\ disp_pc = "head" /\ task_queue # <<>>

\* C2: a task that has been dispatched (it is no longer pending) has every
\* task it depends on completed.
C2_DispatchedAfterDependencies ==
    \A t \in DOMAIN task :
        task[t].status # "pending" =>
            \A d \in task[t].dependencies : task[d].status = "completed"

\* C3: a pending task with a failed dependency is never assigned: its next
\* status is pending or failed and it stays without agent.
C3_FailedDependencyNotDispatched ==
    [][\A t \in DOMAIN task :
          (/\ task[t].status = "pending"
           /\ \E d \in task[t].dependencies : task[d].status = "failed")
          => /\ task'[t].status \in {"pending", "failed"}
             /\ task'[t].assigned_to = None]_vars

Made(c) == attempt[c] # NoAttempt

\* C4: of two assign_task calls with different tasks, the first of which met
\* the agent idle, exactly one returned true, and the agent's current task is
\* the task of that call.
C4_AcceptExclusive ==
    \A c1, c2 \in DOMAIN attempt :
        (/\ c1 # c2 /\ Made(c1) /\ Made(c2)
         /\ attempt[c1].task # attempt[c2].task
         /\ attempt[c1].saw = "idle")
        => /\ attempt[c1].ret /\ ~attempt[c2].ret
           /\ agent[1].current_task = attempt[c1].task

\* C4 witness: two callers have offered different tasks to the agent, which
\* was idle for the first of them.
C4_Witness ==
    \E c1, c2 \in DOMAIN attempt :
        /\ c1 # c2 /\ Made(c1) /\ Made(c2)
        /\ attempt[c1].task # attempt[c2].task
        /\ attempt[c1].saw = "idle"

\* C5: the pool never holds more than max_agents agents.
C5_PoolBounded == Cardinality(pool) <= MaxAgents

\* C5 witness: the pool is full, with an agent the dispatch loop created and
\* an idle one auto-scaling created, and the queue is still above the threshold.
C5_Witness ==
    /\ Cardinality(pool) = MaxAgents
    /\ Len(task_queue) > scaling_threshold
    /\ \E a, b \in pool : /\ agent[a].current_task # None
                          /\ agent[b].status = "idle"

\* C6: a sweep of _monitor_agents leaves every busy agent in the pool and
\* busy, and no step removes from the pool an agent that is not idle.
C6_BusyNeverReclaimed ==
    [][/\ MonitorAgents =>
            \A a \in pool : agent[a].status = "busy" =>
                a \in pool' /\ agent'[a].status = "busy"
       /\ \A a \in pool \ pool' : agent[a].status = "idle"]_vars

\* C6 witness: a busy agent with a heartbeat older than the timeout is in the
\* pool although an agent no older than it has been reclaimed.
C6_Witness ==
    \E a \in pool, b \in DOMAIN agent \ pool :
        /\ agent[a].status = "busy"
        /\ now - agent[a].last_heartbeat > idle_timeout
        /\ agent[b].status = "terminated"
        /\ agent[b].last_heartbeat >= agent[a].last_heartbeat

BatchIds == Range(plan_tasks)

\* The dependencies of t that name a task of the batch.
DepsIn(t) == plan_deps[t] \cap BatchIds

RECURSIVE Closure(_)
Closure(S) ==
    LET N == S \cup UNION {DepsIn(x) : x \in S}
    IN IF N = S THEN S ELSE Closure(N)

\* No task of the batch depends, directly or not, on itself.
Acyclic == \A t \in BatchIds : t \notin Closure(DepsIn(t))

\* How often x occurs in the phases computed so far, and in `remaining`.
InLevels(x) ==
    Cardinality({p \in (DOMAIN levels) \X (1..MaxPlanTasks + 1) :
                    p[2] \in DOMAIN levels[p[1]] /\ levels[p[1]][p[2]] = x})
InRemaining(x) == Cardinality({i \in DOMAIN remaining : remaining[i] = x})

PhaseOf(t) == CHOOSE i \in DOMAIN levels : t \in Range(levels[i])

\* C8: in the phases of an acyclic batch, the phase of a task comes strictly
\* after the phase of each of its dependencies in the batch.
C8_PhaseAfterDependencies ==
    (plan_pc = "done" /\ Acyclic) =>
        \A t \in BatchIds : \A d \in DepsIn(t) : PhaseOf(t) > PhaseOf(d)

\* C9: for an acyclic batch every sub-task is, while the loop runs, exactly
\* once in the phases or in `remaining`, and at the end exactly once in the
\* phases, which hold nothing but the sub-tasks.
C9_LevelingPartitions ==
    Acyclic =>
        /\ plan_pc = "loop" =>
              \A x \in BatchIds : InLevels(x) + InRemaining(x) = 1
        /\ plan_pc = "done" =>
              /\ \A x \in BatchIds : InLevels(x) = 1
              /\ \A i \in DOMAIN levels : Range(levels[i]) \subseteq BatchIds

\* C9 witness: the leveling of an acyclic batch of MaxPlanTasks tasks has
\* ended with more than one phase.
C9_Witness ==
    /\ plan_pc = "done" /\ Acyclic
    /\ Len(plan_tasks) = MaxPlanTasks
    /\ Len(levels) >= 2

\* C10: leveling ends on every input: the loop never begins more iterations
\* than there are tasks, an end with tasks remaining has put exactly those
\* tasks into the last phase, no task is left out of the phases, and the end
\* is reached.
C10_LevelingTerminates ==
    /\ [](/\ iters <= Len(plan_tasks)
          /\ plan_pc = "done" =>
                /\ remaining # <<>> => levels[Len(levels)] = remaining
                /\ \A x \in BatchIds : InLevels(x) >= 1)
    /\ <>(plan_pc = "done")

\* C10 witness: a batch with a cycle has been leveled: a phase was extracted
\* first, then the tasks of the cycle went to the catch-all phase.
C10_Witness ==
    /\ plan_pc = "done" /\ ~Acyclic
    /\ remaining # <<>>
    /\ Len(levels) >= 2
    /\ levels[Len(levels)] = remaining

\* C11: the plan returned for a batch carries a degenerate flag exactly when
\* the dependency graph of the batch has a cycle.
C11_DegenerateFlagged ==
    plan_pc = "done" =>
        (("degenerate" \in DOMAIN Plan /\ Plan["degenerate"] = TRUE) <=> ~Acyclic)

InProgress == {t \in DOMAIN task : task[t].status = "in_progress"}

\* C12: the tasks in progress are never more than the agents of the pool, and
\* while the pool is full and none of its agents is idle, a pending task stays
\* pending.
C12_InFlightBounded ==
    /\ [](Cardinality(InProgress) <= Cardinality(pool))
    /\ [][\A t \in DOMAIN task :
             (/\ task[t].status = "pending"
              /\ Cardinality(pool) = MaxAgents
              /\ \A a \in pool : agent[a].status # "idle")
             => task'[t].status = "pending"]_vars

\* C12 witness: as many tasks are in progress as the full pool has agents, and
\* the dispatch loop has put a further pending task back into the queue.
C12_Witness ==
    /\ Cardinality(pool) = MaxAgents
    /\ Cardinality(InProgress) = MaxAgents
    /\ disp_pc = "head"
    /\ \E i \in DOMAIN task_queue : task[task_queue[i]].status = "pending"

\* ------------------------------------------------------- pipeline claims
\* C13: the plan that process_task returns for a decomposed task (every
\* template is a linear chain; the research template with max_subtasks = 10 has
\* 3 stages) has as many phases as sub-tasks, each of exactly one task.
C13_ChainLevelsIntoSinglePhases ==
    (orch_pc = "done" /\ subtasks # <<>>) =>
        /\ Len(levels) = Len(subtasks)
        /\ \A i \in DOMAIN levels : Len(levels[i]) = 1

Stages(list) == [i \in DOMAIN list |-> subtask[list[i]].stage]

\* Each sub-task of the list but the first depends exactly on the one before.
Chained(list) ==
    \A i \in 2..Len(list) : subtask[list[i]].dependencies = <<list[i - 1]>>

ResearchKeywords == {"research", "analyze", "investigate"}

OtherKeywords ==
    {"build", "create", "develop", "code", "scrape", "extract", "collect",
     "write", "generate", "content"}

\* C14: with max_subtasks >= 3, decompose_task returns for a description with
\* a research keyword the three sub-tasks search, analyze, summarize, and for
\* a description without any keyword analyze, execute, validate, in both cases
\* each depending exactly on the one before it.
C14_DecomposeStages ==
    (orch_pc = "decomposed" /\ main.max_subtasks >= 3) =>
        /\ Contains(main.description) \cap ResearchKeywords # {} =>
              /\ Stages(subtasks) = <<"search", "analyze", "summarize">>
              /\ Chained(subtasks)
        /\ Contains(main.description) \cap (ResearchKeywords \cup OtherKeywords) = {} =>
              /\ Stages(subtasks) = <<"analyze", "execute", "validate">>
              /\ Chained(subtasks)

\* C14 witness: a description with a research keyword and a keyword of
\* another list has been decomposed with max_subtasks = 3.
C14_Witness ==
    /\ orch_pc = "decomposed"
    /\ main.description = "analyze code"
    /\ main.max_subtasks = 3
    /\ Len(subtasks) = 3

\* C15: an agent whose execution has ended (status completed or error, the
\* outcome recorded by the coordinator) is eventually idle again, unless the
\* coordinator is stopped first.
C15_AgentReturnsToIdle ==
    \A a \in 1..MaxAgentIds :
        [](/\ a \in DOMAIN agent
           /\ agent[a].status \in {"completed", "error"}
           /\ \A p \in inflight : p[1] # a
           => <>(~is_running \/ (a \in DOMAIN agent /\ agent[a].status = "idle")))

\* C16: once the status of an agent is terminated, no step changes it.
C16_TerminatedAbsorbing ==
    [][\A a \in DOMAIN agent :
          agent[a].status = "terminated" => agent'[a].status = "terminated"]_vars

\* C17: an assign_task call that meets the agent not idle returns false and
\* changes neither the agent nor any task.
C17_RejectedAssignChangesNothing ==
    [][\A c \in DOMAIN attempt :
          (/\ attempt[c] = NoAttempt /\ attempt'[c] # NoAttempt
           /\ agent[1].status # "idle")
          => /\ attempt'[c].ret = FALSE
             /\ agent' = agent
             /\ task' = task]_vars

\* C17 witness: assign_task calls have met the agent after the end of its
\* task and after its termination, and the tasks they offered are untouched.
C17_Witness ==
    \E c1, c2 \in DOMAIN attempt :
        /\ Made(c1) /\ attempt[c1].saw \in {"completed", "error"}
        /\ Made(c2) /\ attempt[c2].saw = "terminated"
        /\ task[attempt[c1].task].status = "pending"
        /\ task[attempt[c2].task].assigned_to = None

\* C18: when the task body raises during the execute_task of an agent, the
\* agent's task gets an error and the status failed, the agent the status
\* error, tasks_failed grows by one, tasks_completed stays, and the failure
\* reaches the caller of execute_task.
C18_FailureRecordedAndRaised ==
    [][\A p \in inflight :
          (ExecuteFailure(p[1], p[2]) /\ agent[p[1]].current_task # None)
          => LET a == p[1]
                 t == agent[a].current_task
             IN /\ task'[t].status = "failed"
                /\ task'[t].error # "none"
                /\ agent'[a].status = "error"
                /\ agent'[a].tasks_failed = agent[a].tasks_failed + 1
                /\ agent'[a].tasks_completed = agent[a].tasks_completed
                /\ a \in raised']_vars

\* C18 witness: an execute_task has raised to the coordinator, which recorded
\* the failed task, while another agent completed its task.
C18_Witness ==
    \E a \in raised, b \in DOMAIN agent :
        /\ agent[a].status = "error"
        /\ agent[a].tasks_failed = 1
        /\ task[agent[a].current_task].status = "failed"
        /\ agent[a].current_task \in completed_tasks
        /\ agent[b].status = "completed"

\* C19: no task is in the active and in the completed records at once, a task
\* in the completed records is completed or failed, and when the execution
\* of a dispatched task ends the task leaves the active records and enters
\* the completed records.
C19_EndedTasksRecorded ==
    /\ [](/\ active_tasks \cap completed_tasks = {}
          /\ \A t \in completed_tasks : task[t].status \in TerminalStatus)
    /\ [][\A p \in inflight :
             p \notin inflight' =>
                 /\ p[2] \notin active_tasks'
                 /\ p[2] \in completed_tasks'
                 /\ task'[p[2]].status \in TerminalStatus]_vars

\* C19 witness: a failed task is in the completed records while the active
\* records hold a task in progress and a pending one.
C19_Witness ==
    \E t \in completed_tasks, u, v \in active_tasks :
        /\ task[t].status = "failed"
        /\ task[u].status = "in_progress"
        /\ task[v].status = "pending"

\* The queue holds, in the order of their submission, the tasks submitted
\* last: every task that has left it was submitted before those in it.
InSubmissionOrder(q, n) == \A i \in DOMAIN q : q[i] = n - Len(q) + i

\* C20: submit_task puts the task at the tail of the queue and into the active
\* records and leaves it pending, the dispatch loop where it stood; the
\* dispatch loop takes the head of the queue; and as long as no task is put
\* back the queue stays in submission order, so that the task taken is the
\* one submitted first among those not yet taken.
C20_SubmitFifo ==
    [][/\ \A t \in DOMAIN task' \ DOMAIN task :
             /\ task_queue' = Append(task_queue, t)
             /\ active_tasks' = active_tasks \cup {t}
             /\ task'[t].status = "pending"
             /\ UNCHANGED <<held, disp_pc, inflight, completed_tasks>>
       /\ (held = None /\ held' # None) =>
             /\ held' = Head(task_queue)
             /\ task_queue' = Tail(task_queue)
             /\ InSubmissionOrder(task_queue, Len(task)) =>
                   held' = Len(task) - Len(task_queue) + 1
       /\ (~DispatchRequeue /\ InSubmissionOrder(task_queue, Len(task))) =>
             InSubmissionOrder(task_queue', Len(task'))]_vars

\* C20 witness: the first two tasks submitted have been dispatched, the third
\* is the one the dispatch loop holds, and later ones wait in order.
C20_Witness ==
    /\ held = 3
    /\ task[1].status # "pending" /\ task[2].status # "pending"
    /\ Len(task_queue) >= 2
    /\ InSubmissionOrder(task_queue, Len(task))

\* C21: when the dispatch loop has taken a task and finds no idle capable
\* agent while the pool is at max_agents, its step puts the task at the tail
\* of the queue, still pending and unassigned, and changes no agent and not
\* the pool.
C21_RequeueChangesNothingElse ==
    [][(/\ disp_pc = "held" /\ held' = None
        /\ IdleCapable(held) = {}
        /\ Cardinality(pool) >= MaxAgents)
       => /\ task_queue' = Append(task_queue, held)
          /\ task'[held].status = "pending"
          /\ task'[held].assigned_to = None
          /\ task' = task
          /\ agent' = agent
          /\ pool' = pool]_vars

\* C21 witness: with the pool full, a task has been put back behind a task
\* submitted after it.
C21_Witness ==
    /\ disp_pc = "head" /\ held = None
    /\ Cardinality(pool) = MaxAgents
    /\ Len(task_queue) >= 2
    /\ task_queue[Len(task_queue)] < task_queue[1]
    /\ task[task_queue[Len(task_queue)]].status = "pending"

\* C22: a task is assigned only to an agent that was idle (an agent of the
\* pool, or one just created) and one of whose capability tags occurs in the
\* task's description.
C22_AssignedAgentSuitable ==
    [][\A t \in DOMAIN task :
          (task[t].status = "pending" /\ task'[t].status = "in_progress")
          => LET a == task'[t].assigned_to
             IN /\ a \in DOMAIN agent => agent[a].status = "idle"
                /\ AgentCanHandleTask(agent'[a].kind, task[t].description)]_vars

\* C23: one sweep of _auto_scale that finds the queue longer than the
\* threshold and the pool below max_agents adds exactly the smaller of
\* (queue length - threshold) and (max_agents - pool size) agents, any other
\* sweep adds none, and no sweep removes an agent.
C23_AutoScaleAddsExactly ==
    [][AutoScale =>
          LET q == Len(task_queue)
              n == Cardinality(pool)
              want == q - scaling_threshold
              room == MaxAgents - n
          IN /\ pool \subseteq pool'
             /\ Cardinality(pool') - n =
                    IF q > scaling_threshold /\ n < MaxAgents
                    THEN (IF want <= room THEN want ELSE room)
                    ELSE 0
             /\ \A a \in pool' \ pool : agent'[a].status = "idle"]_vars

\* C23 witness: one sweep has added two agents at once to the pool, the queue
\* being two or more above the threshold.
C23_Witness ==
    /\ Len(task_queue) >= scaling_threshold + 2
    /\ \E a, b \in pool :
          /\ a # b
          /\ agent[a].status = "idle" /\ agent[b].status = "idle"
          /\ agent[a].last_heartbeat = agent[b].last_heartbeat

\* C24: when a sweep of _monitor_agents is over, with or without a terminate()
\* that raised, no agent whose own termination works is left in the pool idle
\* past the timeout.
C24_SweepSurvivesFailedTermination ==
    mon_pc \in {"sleep", "caught"} =>
        \A a \in pool :
            ~(/\ agent[a].status = "idle"
              /\ now - agent[a].last_heartbeat > idle_timeout
              /\ ~TerminateRaises(agent[a].kind))

\* C25: a sub-task keeps through assign_priorities the priority the
\* decomposition template gave it explicitly, MEDIUM included, wherever it
\* stands in the workflow.
C25_ExplicitPriorityKept ==
    orch_pc \in {"prioritized", "plan", "done"} =>
        \A t \in Range(workflow) :
            subtask[t].priority = Template(main.description)[t].priority

\* The dependencies of t that name a task of the list handed to
\* create_workflow, and the tasks a set of tasks depends on, directly or not.
WfDepsIn(t) == Range(subtask[t].dependencies) \cap Range(subtasks)

RECURSIVE WfClosure(_)
WfClosure(S) ==
    LET N == S \cup UNION {WfDepsIn(x) : x \in S}
    IN IF N = S THEN S ELSE WfClosure(N)

WfAcyclic == \A t \in Range(subtasks) : t \notin WfClosure(WfDepsIn(t))

Position(seq, x) == CHOOSE i \in DOMAIN seq : seq[i] = x

\* b holds every element of a exactly once and nothing else.
Permutation(a, b) ==
    /\ Len(a) = Len(b)
    /\ Range(a) = Range(b)
    /\ Cardinality(Range(b)) = Len(b)

\* Every task of seq stands behind its dependencies that are in the list.
DependenciesFirst(seq) ==
    \A i \in DOMAIN seq :
        \A d \in WfDepsIn(seq[i]) : \E j \in 1..(i - 1) : seq[j] = d

\* C26: of the sub-tasks of default priority, assign_priorities promotes
\* those in the first third of the workflow to HIGH, demotes those in the last
\* third to LOW and leaves the others at MEDIUM; position p of n lies in the
\* first third when p/n <= 1/3 and in the last third when (p-1)/n >= 2/3, so
\* that the last of three positions is the last third.
C26_ThirdsOfDefaultPriority ==
    [][(orch_pc = "workflow" /\ orch_pc' = "prioritized") =>
          \A p \in DOMAIN workflow :
              subtask[workflow[p]].priority = MEDIUM =>
                  subtask'[workflow[p]].priority =
                      IF 3 * p <= Len(workflow) THEN HIGH
                      ELSE IF 3 * (p - 1) >= 2 * Len(workflow) THEN LOW
                      ELSE MEDIUM]_vars

\* C27: the list assign_priorities returns holds the tasks of the workflow,
\* each once, by priority descending, then by number of dependencies
\* ascending, then in workflow order.
C27_SortedByPriorityThenDependencies ==
    orch_pc = "prioritized" =>
        /\ Permutation(workflow, prioritized)
        /\ \A i, j \in DOMAIN prioritized :
               i < j =>
                   LET a == subtask[prioritized[i]]
                       b == subtask[prioritized[j]]
                   IN \/ a.priority > b.priority
                      \/ /\ a.priority = b.priority
                         /\ Len(a.dependencies) < Len(b.dependencies)
                      \/ /\ a.priority = b.priority
                         /\ Len(a.dependencies) = Len(b.dependencies)
                         /\ Position(workflow, prioritized[i])
                                < Position(workflow, prioritized[j])

\* The sort moved a task, decided one pair by the number of dependencies and
\* left one pair, equal on both keys, in workflow order.
C27_Witness ==
    /\ orch_pc = "prioritized"
    /\ prioritized # workflow
    /\ \E i, j \in DOMAIN prioritized :
          /\ i < j
          /\ subtask[prioritized[i]].priority = subtask[prioritized[j]].priority
          /\ Len(subtask[prioritized[i]].dependencies)
                < Len(subtask[prioritized[j]].dependencies)
    /\ \E i, j \in DOMAIN prioritized :
          /\ i < j
          /\ subtask[prioritized[i]].priority = subtask[prioritized[j]].priority
          /\ Len(subtask[prioritized[i]].dependencies)
                = Len(subtask[prioritized[j]].dependencies)

\* C28: in the list assign_priorities returns for an acyclic workflow, every
\* task stands behind its dependencies that are in the list.
C28_PrioritizedRespectsDependencies ==
    (orch_pc = "prioritized" /\ WfAcyclic) => DependenciesFirst(prioritized)

\* C29: for an acyclic list create_workflow does not raise, and returns the
\* tasks of the list, each once, every task behind its dependencies that are
\* in the list; dependency ids that name no task of the list play no part.
C29_WorkflowOrdersAcyclicList ==
    WfAcyclic =>
        /\ orch_pc # "raised"
        /\ orch_pc \in {"workflow", "prioritized"} =>
               /\ Permutation(subtasks, workflow)
               /\ DependenciesFirst(workflow)

\* create_workflow returned, for a list with a dependency on an id outside
\* the list, an order that is not the order of the list.
C29_Witness ==
    /\ orch_pc = "workflow"
    /\ WfAcyclic
    /\ workflow # subtasks
    /\ \E t \in Range(subtasks) : WfOutsideId \in Range(subtask[t].dependencies)

\* C30: create_workflow returns for every list, cyclic ones included, and the
\* list returned holds every sub-task exactly once.
C30_CreateWorkflowAlwaysReturns ==
    /\ orch_pc # "raised"
    /\ orch_pc \in {"workflow", "prioritized"} => Permutation(subtasks, workflow)

\* C31: a dependency id that names no task of the batch counts as satisfied:
\* a sub-task without dependencies in the batch is in the first phase, and
\* every task the loop ends on unextracted (the catch-all phase) depends on a
\* task of the batch that is unextracted too.
C31_OutsideDependenciesSatisfied ==
    plan_pc = "done" =>
        /\ \A t \in BatchIds : DepsIn(t) = {} => t \in Range(levels[1])
        /\ \A t \in Range(remaining) : DepsIn(t) \cap Range(remaining) # {}

\* C31 witness: a batch in which a task depends on nothing but an id outside
\* the batch has been leveled without a catch-all phase.
C31_Witness ==
    /\ plan_pc = "done"
    /\ remaining = <<>>
    /\ \E t \in BatchIds : plan_deps[t] = {OutsideId} /\ t \in Range(levels[1])

TableSeconds(ks) ==
    IF "search" \in ks THEN 30
    ELSE IF "scrape" \in ks THEN 60
    ELSE IF "analyze" \in ks THEN 120
    ELSE IF "code" \in ks THEN 180
    ELSE IF "test" \in ks THEN 90
    ELSE IF "write" \in ks THEN 150
    ELSE IF "review" \in ks THEN 60
    ELSE 60

\* The keywords of the table that occur in the lower-cased description of
\* sub-task t.
KeywordsOf(t) ==
    {k \in {"search", "scrape", "analyze", "code", "test", "write", "review"} :
        KeywordInDesc(k, main.description, t)}

RECURSIVE SumOver(_)
SumOver(S) ==
    IF S = {} THEN 0
    ELSE LET t == CHOOSE x \in S : TRUE
         IN TableSeconds(KeywordsOf(t)) + SumOver(S \ {t})

\* C33: the estimated_seconds process_task returns is the sum, over the
\* sub-tasks, of the seconds of the first keyword of the table that occurs
\* in the lower-cased description, 60 when none occurs.
C33_EstimateSumsFirstKeyword ==
    (orch_pc = "done" /\ subtasks # <<>>) =>
        estimated.estimated_seconds = SumOver(Range(prioritized))

\* C33 witness: an estimate was returned for three sub-tasks of which one
\* holds two keywords of the table, the later in the table standing first in
\* the text ("Analyze research findings for: research topic").
C33_Witness ==
    /\ orch_pc = "done"
    /\ Len(subtasks) = 3
    /\ \E t \in Range(prioritized) : KeywordsOf(t) = {"search", "analyze"}
    /\ estimated.estimated_seconds = 90

\* C34: no task has both a result and an error; a completed task has no
\* error; a failed task has an error and no result.
C34_ResultErrorExclusive ==
    \A t \in DOMAIN task :
        /\ ~(task[t].result # "none" /\ task[t].error # "none")
        /\ task[t].status = "completed" => task[t].error = "none"
        /\ task[t].status = "failed" =>
               task[t].error # "none" /\ task[t].result = "none"

\* C34 witness: one task has ended with a result and another with an error.
C34_Witness ==
    \E t, u \in completed_tasks :
        /\ task[t].status = "completed" /\ task[t].result # "none"
        /\ task[u].status = "failed" /\ task[u].error # "none"

\* C35: every busy agent has a current task, which is in progress and
\* assigned to that agent; no two busy agents have the same current task; and
\* the assigned_to of a task, once set, stays.
C35_TaskAgentExclusive ==
    /\ [](/\ \A a \in DOMAIN agent :
                agent[a].status = "busy" =>
                    /\ agent[a].current_task \in DOMAIN task
                    /\ task[agent[a].current_task].status = "in_progress"
                    /\ task[agent[a].current_task].assigned_to = a
          /\ \A a, b \in DOMAIN agent :
                (/\ a # b
                 /\ agent[a].status = "busy"
                 /\ agent[b].status = "busy")
                => agent[a].current_task # agent[b].current_task)
    /\ [][\A t \in DOMAIN task :
             task[t].assigned_to # None =>
                 task'[t].assigned_to = task[t].assigned_to]_vars

\* C35 witness: two agents are busy with different tasks while other tasks
\* wait in the queue.
C35_Witness ==
    \E a, b \in pool :
        /\ a # b
        /\ agent[a].status = "busy"
        /\ agent[b].status = "busy"
        /\ agent[a].current_task # agent[b].current_task
        /\ task_queue # <<>>

\* C36: while the coordinator runs, every submitted task for which the factory
\* can build an agent is eventually completed or failed and in the completed
\* records, however many tasks were submitted.
C36_EverySubmittedTaskEnds ==
    \A t \in 1..MaxTasks :
        [](/\ t \in DOMAIN task
           /\ is_running
           /\ CreateAgentForTask(task[t].description) # "coroutine"
           => <>(\/ ~is_running
                 \/ /\ t \in DOMAIN task
                    /\ task[t].status \in TerminalStatus
                    /\ t \in completed_tasks))

\* C37: while the coordinator runs, every pending task of the active records
\* is in the queue or is the task the dispatch loop holds.
C37_NoPendingTaskLost ==
    is_running =>
        \A t \in active_tasks :
            task[t].status = "pending" => (t \in Range(task_queue) \/ held = t)

\* C38: an agent ends at most one task (tasks_completed + tasks_failed <= 1),
\* and its current_task, once set, is neither replaced nor cleared.
C38_OneTaskPerAgent ==
    /\ [](\A a \in DOMAIN agent :
             agent[a].tasks_completed + agent[a].tasks_failed <= 1)
    /\ [][\A a \in DOMAIN agent :
             agent[a].current_task # None =>
                 agent'[a].current_task = agent[a].current_task]_vars

\* C38 witness: the pool is full of agents that have each ended one task and
\* kept it as current_task, while a pending task waits in the queue of the
\* running coordinator.
C38_Witness ==
    /\ is_running
    /\ Cardinality(pool) = MaxAgents
    /\ \A a \in pool :
          /\ agent[a].tasks_completed + agent[a].tasks_failed = 1
          /\ agent[a].current_task # None
    /\ task_queue # <<>>

\* C39: once the coordinator is stopped, no pending task is put in progress
\* and no agent is added to the pool.
C39_NoDispatchAfterStop ==
    [][~is_running =>
          /\ \A t \in DOMAIN task :
                task[t].status = "pending" => task'[t].status # "in_progress"
          /\ pool' \subseteq pool]_vars

====
